---- MODULE Spec2Model ----
(***************************************************************************)
(* Model of static/js/main.js: the dashboard controller that pages through *)
(* thermal datasets.  The state is the two module-scoped counters, the DOM *)
(* the script writes (paging controls, time-series chart, detail panel)    *)
(* and the fetches that are in flight.  Every action is one run-to-        *)
(* completion turn of the script: a click handler, the interval callback,  *)
(* or the resumption of an async function when its response has arrived.   *)
(***************************************************************************)
EXTENDS Integers, Sequences, FiniteSets, Bags, TLC

\* Longest summary list the data source returns.
MaxTotal == 3

\* Most fetches of one kind (summary by the timer, detail) that are
\* outstanding at the same time.
MaxInFlight == 2

VARIABLES
    currentDatasetIndex,  \* let currentDatasetIndex
    totalDatasets,        \* let totalDatasets
    controls,             \* counterEl.textContent, btnPrev.disabled, btnNext.disabled
    temporalPlot,         \* what Plotly.newPlot last drew in 'temporal-plot'
    detailView,           \* filenameEl, stats.*, and the five Plotly.react targets
    initPc,               \* where initialize() is
    tickInFlight,         \* summary fetches issued by the interval, not yet answered
    detailInFlight,       \* bag of the indices of the detail fetches not yet answered
    ev,                   \* the turn that ran last
    hadData,              \* a summary response with a non-empty list has arrived
    failed                \* a fetch has failed (the catch block of either function ran)

vars == <<currentDatasetIndex, totalDatasets, controls, temporalPlot, detailView,
          initPc, tickInFlight, detailInFlight, ev, hadData, failed>>

----------------------------------------------------------------------------
(* The data source.                                                        *)

\* One element of the list GET /api/data/summary returns.
SummaryPoint(k) == [timestamp |-> k, max_temp |-> 30 + k, min_temp |-> 10 + k]

\* The list of length n.
SummaryData(n) == [k \in 1..n |-> SummaryPoint(k)]

\* The record GET /api/data/detail/{i} returns; numbers are in thousandths
\* of a degree so that toFixed(2) has something to round.
DetailData(i) ==
    [filename |-> <<"dataset", i>>,
     stats    |-> [min |-> 20000 + 1000 * i + 4,
                   max |-> 40000 + 1000 * i + 5,
                   avg |-> 30000 + 1000 * i + 6],
     matrices |-> [temperature        |-> << <<20 + i, 30 + i>>, <<30 + i, 40 + i>> >>,
                   gradient_magnitude |-> << <<i, 1>>, <<1, 0>> >>,
                   hot_roi            |-> << <<0, 0>>, <<0, 1>> >>]]

----------------------------------------------------------------------------
(* Pure parts of the script.                                               *)

\* Number.prototype.toFixed(2) on thousandths: rounds to hundredths.
ToFixed2(v) == (v + 5) \div 10

\* `${x.toFixed(2)} °C`
StatText(v) == <<ToFixed2(v), "°C">>

\* Array.prototype.flat() of a matrix.
RECURSIVE Flat(_)
Flat(m) == IF m = << >> THEN << >> ELSE Head(m) \o Flat(Tail(m))

\* The x and y arrays of traceMax and traceMin.
TemporalTraces(summaryData) ==
    [x    |-> [k \in DOMAIN summaryData |-> summaryData[k].timestamp],
     yMax |-> [k \in DOMAIN summaryData |-> summaryData[k].max_temp],
     yMin |-> [k \in DOMAIN summaryData |-> summaryData[k].min_temp]]

\* Everything updateDetailPlots writes once it has the record.
RenderDetail(detailData) ==
    LET tempMatrix == detailData.matrices.temperature IN
    [filenameEl |-> detailData.filename,
     statsMin   |-> StatText(detailData.stats.min),
     statsMax   |-> StatText(detailData.stats.max),
     statsAvg   |-> StatText(detailData.stats.avg),
     plot3d     |-> <<[z |-> tempMatrix, cmin |-> detailData.stats.min,
                       cmax |-> detailData.stats.max]>>,
     plot2d     |-> <<[z |-> tempMatrix, cmin |-> detailData.stats.min,
                       cmax |-> detailData.stats.max]>>,
     histogram  |-> <<[x |-> Flat(tempMatrix)]>>,
     gradient   |-> <<[z |-> detailData.matrices.gradient_magnitude]>>,
     roi        |-> <<[z |-> detailData.matrices.hot_roi]>>]

\* The detail panel before anything was rendered into it.
BlankDetail ==
    [filenameEl |-> << >>, statsMin |-> << >>, statsMax |-> << >>, statsAvg |-> << >>,
     plot3d |-> << >>, plot2d |-> << >>, histogram |-> << >>, gradient |-> << >>,
     roi |-> << >>]

\* The chart before anything was drawn.
BlankPlot == [x |-> << >>, yMax |-> << >>, yMin |-> << >>]

\* updateControls(): the counter text is the pair <<shown, of>>.
UpdateControls(index, total) ==
    [counterEl       |-> IF total > 0 THEN <<index + 1, total>> ELSE <<0, 0>>,
     btnPrevDisabled |-> index <= 0,
     btnNextDisabled |-> index >= total - 1]

\* CanPrev with the comparison off by one.
CanPrevOffByOne(index) == index >= 0

\* The condition of the btnPrev handler.
CanPrev(index) == index > 0

\* The condition of the btnNext handler.
CanNext(index, total) == index < total - 1

\* InitLoadsDetail without the test of totalDatasets.
InitLoadsDetailAlways(total) == total >= 0

\* The condition under which initialize() loads the first detail record.
InitLoadsDetail(total) == total > 0

\* UpdateTemporalPlot with the test for an empty list placed before the
\* assignment of totalDatasets.
UpdateTemporalPlotSkipsEmpty(ok, summaryData) ==
    IF ~ok \/ Len(summaryData) = 0
    THEN [total |-> totalDatasets, plot |-> temporalPlot, controls |-> controls]
    ELSE [total    |-> Len(summaryData),
          plot     |-> TemporalTraces(summaryData),
          controls |-> UpdateControls(currentDatasetIndex, Len(summaryData))]

\* UpdateTemporalPlot with a catch block that resets the counter and redraws
\* the controls.
UpdateTemporalPlotResetOnError(ok, summaryData) ==
    IF ~ok
    THEN [total |-> 0, plot |-> temporalPlot,
          controls |-> UpdateControls(currentDatasetIndex, 0)]
    ELSE IF Len(summaryData) = 0
    THEN [total |-> 0, plot |-> temporalPlot, controls |-> controls]
    ELSE [total    |-> Len(summaryData),
          plot     |-> TemporalTraces(summaryData),
          controls |-> UpdateControls(currentDatasetIndex, Len(summaryData))]

\* What updateTemporalPlot leaves behind once its response has arrived:
\* ok is response.ok (and the body parsed), summaryData the parsed list.
UpdateTemporalPlot(ok, summaryData) ==
    IF ~ok
    THEN [total |-> totalDatasets, plot |-> temporalPlot, controls |-> controls]
    ELSE IF Len(summaryData) = 0
    THEN [total |-> 0, plot |-> temporalPlot, controls |-> controls]
    ELSE [total    |-> Len(summaryData),
          plot     |-> TemporalTraces(summaryData),
          controls |-> UpdateControls(currentDatasetIndex, Len(summaryData))]

\* UpdateDetailPlots that stops after the texts and leaves the five plots.
UpdateDetailPlotsTextsOnly(ok, index) ==
    IF ok
    THEN LET d == RenderDetail(DetailData(index)) IN
         [detailView EXCEPT !.filenameEl = d.filenameEl, !.statsMin = d.statsMin,
                            !.statsMax = d.statsMax, !.statsAvg = d.statsAvg]
    ELSE detailView

\* UpdateDetailPlots with the texts written before response.ok is tested.
UpdateDetailPlotsWriteFirst(ok, index) ==
    IF ok THEN RenderDetail(DetailData(index))
    ELSE [detailView EXCEPT !.filenameEl = <<"dataset", index>>]

\* What updateDetailPlots(index) leaves behind once its response has arrived.
UpdateDetailPlots(ok, index) ==
    IF ok THEN RenderDetail(DetailData(index)) ELSE detailView

Event(kind, arg) == [kind |-> kind, arg |-> arg]

----------------------------------------------------------------------------
(* The state once the DOMContentLoaded callback has returned: initialize() *)
(* is suspended in updateTemporalPlot's fetch, the interval is armed, the  *)
(* controls are as the page's markup has them.                             *)

Init ==
    /\ currentDatasetIndex = 0
    /\ totalDatasets = 0
    /\ \E p, n \in BOOLEAN :
          controls = [counterEl |-> <<0, 0>>, btnPrevDisabled |-> p,
                      btnNextDisabled |-> n]
    /\ temporalPlot = BlankPlot
    /\ detailView = BlankDetail
    /\ initPc = "awaitSummary"
    /\ tickInFlight = 0
    /\ detailInFlight = EmptyBag
    /\ ev = Event("load", 0)
    /\ hadData = FALSE
    /\ failed = FALSE

\* A macrotask (click, timer) cannot run between the resumption of
\* updateTemporalPlot and the resumption of initialize() that awaits it.
Idle == initPc # "resumed"

\* btnPrev 'click'
BtnPrevClick ==
    /\ Idle
    /\ ev' = Event("prev", currentDatasetIndex)
    /\ IF CanPrev(currentDatasetIndex)
       THEN /\ BagCardinality(detailInFlight) < MaxInFlight
            /\ currentDatasetIndex' = currentDatasetIndex - 1
            /\ controls' = UpdateControls(currentDatasetIndex', totalDatasets)
            /\ detailInFlight' = detailInFlight (+) SetToBag({currentDatasetIndex'})
       ELSE UNCHANGED <<currentDatasetIndex, controls, detailInFlight>>
    /\ UNCHANGED <<totalDatasets, temporalPlot, detailView, initPc, tickInFlight,
                   hadData, failed>>

\* BtnNextClick with the fetch issued for the index before the increment
\* (updateDetailPlots(currentDatasetIndex++)).
BtnNextClickLoadsOldIndex ==
    /\ Idle
    /\ ev' = Event("next", currentDatasetIndex)
    /\ IF CanNext(currentDatasetIndex, totalDatasets)
       THEN /\ BagCardinality(detailInFlight) < MaxInFlight
            /\ currentDatasetIndex' = currentDatasetIndex + 1
            /\ controls' = UpdateControls(currentDatasetIndex', totalDatasets)
            /\ detailInFlight' = detailInFlight (+) SetToBag({currentDatasetIndex})
       ELSE UNCHANGED <<currentDatasetIndex, controls, detailInFlight>>
    /\ UNCHANGED <<totalDatasets, temporalPlot, detailView, initPc, tickInFlight,
                   hadData, failed>>

\* btnNext 'click'
BtnNextClick ==
    /\ Idle
    /\ ev' = Event("next", currentDatasetIndex)
    /\ IF CanNext(currentDatasetIndex, totalDatasets)
       THEN /\ BagCardinality(detailInFlight) < MaxInFlight
            /\ currentDatasetIndex' = currentDatasetIndex + 1
            /\ controls' = UpdateControls(currentDatasetIndex', totalDatasets)
            /\ detailInFlight' = detailInFlight (+) SetToBag({currentDatasetIndex'})
       ELSE UNCHANGED <<currentDatasetIndex, controls, detailInFlight>>
    /\ UNCHANGED <<totalDatasets, temporalPlot, detailView, initPc, tickInFlight,
                   hadData, failed>>

\* Tick with a catch block that cancels the interval (clearInterval).
TickStopsAfterFailure ==
    /\ Idle
    /\ ~failed
    /\ tickInFlight < MaxInFlight
    /\ tickInFlight' = tickInFlight + 1
    /\ ev' = Event("tick", 0)
    /\ UNCHANGED <<currentDatasetIndex, totalDatasets, controls, temporalPlot,
                   detailView, initPc, detailInFlight, hadData, failed>>

\* Tick with the interval calling both update functions.
TickAlsoLoadsDetail ==
    /\ Idle
    /\ tickInFlight < MaxInFlight
    /\ tickInFlight' = tickInFlight + 1
    /\ detailInFlight' = detailInFlight (+) SetToBag({currentDatasetIndex})
    /\ ev' = Event("tick", 0)
    /\ UNCHANGED <<currentDatasetIndex, totalDatasets, controls, temporalPlot,
                   detailView, initPc, hadData, failed>>

\* setInterval callback: updateTemporalPlot() runs up to its fetch.
Tick ==
    /\ Idle
    /\ tickInFlight < MaxInFlight
    /\ tickInFlight' = tickInFlight + 1
    /\ ev' = Event("tick", 0)
    /\ UNCHANGED <<currentDatasetIndex, totalDatasets, controls, temporalPlot,
                   detailView, initPc, detailInFlight, hadData, failed>>

\* SummaryResponse that also pulls the index back into the new range.
SummaryResponseClampsIndex(origin, ok, n) ==
    /\ Idle
    /\ \/ origin = "init" /\ initPc = "awaitSummary" /\ initPc' = "resumed"
                          /\ UNCHANGED tickInFlight
       \/ origin = "tick" /\ tickInFlight > 0 /\ tickInFlight' = tickInFlight - 1
                          /\ UNCHANGED initPc
    /\ LET after == UpdateTemporalPlot(ok, SummaryData(n)) IN
          /\ totalDatasets' = after.total
          /\ temporalPlot' = after.plot
          /\ controls' = after.controls
          /\ currentDatasetIndex' =
                IF currentDatasetIndex >= after.total
                THEN (IF after.total > 0 THEN after.total - 1 ELSE 0)
                ELSE currentDatasetIndex
    /\ hadData' = (hadData \/ (ok /\ n > 0))
    /\ failed' = (failed \/ ~ok)
    /\ ev' = Event(IF ok THEN "summaryOk" ELSE "summaryFail", IF ok THEN n ELSE 0)
    /\ UNCHANGED <<detailView, detailInFlight>>

\* updateTemporalPlot resumes with its response; origin tells whose call it
\* was ("init": the one initialize() awaits, "tick": one of the interval's).
SummaryResponse(origin, ok, n) ==
    /\ Idle
    /\ \/ origin = "init" /\ initPc = "awaitSummary" /\ initPc' = "resumed"
                          /\ UNCHANGED tickInFlight
       \/ origin = "tick" /\ tickInFlight > 0 /\ tickInFlight' = tickInFlight - 1
                          /\ UNCHANGED initPc
    /\ LET after == UpdateTemporalPlot(ok, SummaryData(n)) IN
          /\ totalDatasets' = after.total
          /\ temporalPlot' = after.plot
          /\ controls' = after.controls
    /\ hadData' = (hadData \/ (ok /\ n > 0))
    /\ failed' = (failed \/ ~ok)
    /\ ev' = Event(IF ok THEN "summaryOk" ELSE "summaryFail", IF ok THEN n ELSE 0)
    /\ UNCHANGED <<currentDatasetIndex, detailView, detailInFlight>>

\* initialize() resumes after `await updateTemporalPlot()`.
InitializeResume ==
    /\ initPc = "resumed"
    /\ initPc' = "done"
    /\ IF InitLoadsDetail(totalDatasets)
       THEN detailInFlight' = detailInFlight (+) SetToBag({currentDatasetIndex})
       ELSE UNCHANGED detailInFlight
    /\ controls' = UpdateControls(currentDatasetIndex, totalDatasets)
    /\ ev' = Event("init", 0)
    /\ UNCHANGED <<currentDatasetIndex, totalDatasets, temporalPlot, detailView,
                   tickInFlight, hadData, failed>>

\* updateDetailPlots(index) resumes with its response.
DetailResponse(index, ok) ==
    /\ Idle
    /\ BagIn(index, detailInFlight)
    /\ detailInFlight' = detailInFlight (-) SetToBag({index})
    /\ detailView' = UpdateDetailPlots(ok, index)
    /\ ev' = Event(IF ok THEN "detailOk" ELSE "detailFail", index)
    /\ failed' = (failed \/ ~ok)
    /\ UNCHANGED <<currentDatasetIndex, totalDatasets, controls, temporalPlot,
                   initPc, tickInFlight, hadData>>

Next ==
    \/ BtnPrevClick
    \/ BtnNextClick
    \/ Tick
    \/ \E origin \in {"init", "tick"}, ok \in BOOLEAN, n \in 0..MaxTotal :
          SummaryResponse(origin, ok, n)
    \/ InitializeResume
    \/ \E index \in 0..MaxTotal, ok \in BOOLEAN : DetailResponse(index, ok)

Spec == Init /\ [][Next]_vars

\* A summary fetch of the interval settles: it resolves or it rejects.
TickAnswered ==
    \E ok \in BOOLEAN, n \in 0..MaxTotal : SummaryResponse("tick", ok, n)

\* The interval keeps firing for as long as the page lives, a continuation
\* that is ready to run is run, and a fetch does not stay pending for ever.
FairSpec ==
    /\ Spec
    /\ WF_vars(Tick)
    /\ WF_vars(TickAnswered)
    /\ WF_vars(InitializeResume)

TypeOK ==
    /\ currentDatasetIndex \in 0..MaxTotal
    /\ totalDatasets \in 0..MaxTotal
    /\ initPc \in {"awaitSummary", "resumed", "done"}
    /\ tickInFlight \in 0..MaxInFlight
    /\ BagCardinality(detailInFlight) <= MaxInFlight + 1

----------------------------------------------------------------------------
(* Properties.                                                             *)

\* A turn of kind k has just run.
Ran(k) == ev'.kind = k

\* The turn issues a detail fetch.
IssuesDetail == BagCardinality(detailInFlight') > BagCardinality(detailInFlight)

Min(a, b) == IF a < b THEN a ELSE b
Max(a, b) == IF a > b THEN a ELSE b

\* controlState() of the Navigator contract.
ControlState(index, total) ==
    [counterEl       |-> IF total = 0 THEN <<0, 0>> ELSE <<index + 1, total>>,
     btnPrevDisabled |-> ~(index > 0),
     btnNextDisabled |-> ~(index < total - 1)]

\* C1: in every reachable state, 0 <= index < total when total > 0, and
\* index = 0 when total = 0.
C1_IndexInRange ==
    /\ totalDatasets > 0 => (0 <= currentDatasetIndex /\ currentDatasetIndex < totalDatasets)
    /\ totalDatasets = 0 => currentDatasetIndex = 0

\* C2: a successful summary response of length n sets total to n and the
\* index to min(old index, max(n-1, 0)).
C2_RefreshClampsIndex ==
    [][Ran("summaryOk") =>
          /\ totalDatasets' = ev'.arg
          /\ currentDatasetIndex' = Min(currentDatasetIndex, Max(ev'.arg - 1, 0))]_vars

\* C3: a successful detail response is rendered only if the index it was
\* fetched for is the current index when it arrives; otherwise the detail
\* view stays as it was.
C3_StaleDetailDiscarded ==
    [][Ran("detailOk") =>
          IF ev'.arg = currentDatasetIndex
          THEN detailView' = RenderDetail(DetailData(ev'.arg))
          ELSE UNCHANGED detailView]_vars

\* C4: a next click adds one to the index when index < total-1 and leaves
\* total alone, otherwise it changes neither; it is a no-op iff
\* index = total-1 or total = 0.
C4_NextClick ==
    [][Ran("next") =>
          /\ IF currentDatasetIndex < totalDatasets - 1
             THEN /\ currentDatasetIndex' = currentDatasetIndex + 1
                  /\ totalDatasets' = totalDatasets
             ELSE UNCHANGED <<currentDatasetIndex, totalDatasets>>
          /\ UNCHANGED <<currentDatasetIndex, totalDatasets>>
                <=> (currentDatasetIndex = totalDatasets - 1 \/ totalDatasets = 0)]_vars

\* C5: a previous click subtracts one from the index when index > 0 and
\* leaves total alone, otherwise it changes neither; it is a no-op iff
\* index = 0.
C5_PreviousClick ==
    [][Ran("prev") =>
          /\ IF currentDatasetIndex > 0
             THEN /\ currentDatasetIndex' = currentDatasetIndex - 1
                  /\ totalDatasets' = totalDatasets
             ELSE UNCHANGED <<currentDatasetIndex, totalDatasets>>
          /\ UNCHANGED <<currentDatasetIndex, totalDatasets>>
                <=> currentDatasetIndex = 0]_vars

\* A previous click has just moved the index from 2 to 1.
C5_Witness ==
    /\ ev = Event("prev", 2)
    /\ currentDatasetIndex = 1

\* C6: when a click or a successful summary response has changed index or
\* total and its handler has run to completion, and when the startup
\* sequence has run to completion, the displayed controls are
\* controlState(index, total).
C6_ControlsFollowState ==
    [][(\/ /\ Ran("prev") \/ Ran("next") \/ Ran("summaryOk")
           /\ <<currentDatasetIndex, totalDatasets>>' # <<currentDatasetIndex, totalDatasets>>
           /\ initPc' # "resumed"
        \/ Ran("init"))
       => controls' = ControlState(currentDatasetIndex', totalDatasets')]_vars

C8_DetailFailureKeepsState ==
    [][Ran("detailFail") =>
          UNCHANGED <<detailView, currentDatasetIndex, totalDatasets>>]_vars

\* The fetch for index 2 has just failed, index 2 being out of range by now,
\* while the record of index 1 was on display.
C8_Witness ==
    /\ ev = Event("detailFail", 2)
    /\ totalDatasets = 1
    /\ detailView = RenderDetail(DetailData(1))

\* C9 as stated: while the startup summary fetch is in flight no turn issues
\* a detail fetch, and the startup sequence issues one only if total > 0.
C9_NoDetailBeforeStartupSummary ==
    [][/\ initPc = "awaitSummary" => ~IssuesDetail
       /\ (Ran("init") /\ IssuesDetail) => totalDatasets > 0]_vars

\* C9 amended: no detail fetch is issued before a summary response with a
\* non-empty list has arrived; the startup sequence issues its detail fetch
\* only once its own summary refresh has completed and only if total > 0
\* then; any other detail fetch is issued by a click.
C9_StartupDetailAfterSummary ==
    [][IssuesDetail =>
          /\ hadData
          /\ \/ Ran("prev") \/ Ran("next")
             \/ /\ Ran("init")
                /\ initPc = "resumed"
                /\ totalDatasets > 0]_vars

\* The startup sequence has just issued its detail fetch.
C9_Witness ==
    /\ ev.kind = "init"
    /\ initPc = "done"
    /\ totalDatasets > 0
    /\ BagIn(currentDatasetIndex, detailInFlight)

\* C10: no turn that starts with total = 0 issues a detail fetch.
C10_NoDetailWhenEmpty ==
    [][totalDatasets = 0 => ~IssuesDetail]_vars

\* The turn is the resumption of an updateTemporalPlot call of the interval.
TickResponse == tickInFlight' < tickInFlight

\* C11: neither a periodic tick nor the processing of its summary response
\* issues a detail fetch or changes the detail view, filename or stats.
C11_TickLeavesDetailAlone ==
    [][(Ran("tick") \/ TickResponse) =>
          /\ ~IssuesDetail
          /\ UNCHANGED detailView]_vars

\* A tick's response has just shrunk total to 1 while the index is 2 and the
\* record of index 2 is on display, with no detail fetch outstanding.
C11_Witness ==
    /\ ev = Event("summaryOk", 1)
    /\ initPc = "done"
    /\ currentDatasetIndex = 2
    /\ detailView = RenderDetail(DetailData(2))
    /\ detailInFlight = EmptyBag

\* The turn that ran last was the catch block of one of the two functions.
JustFailed == ev.kind \in {"summaryFail", "detailFail"}

\* C12: the interval issues a summary refresh again and again, also after
\* any failed summary or detail fetch, and once a fetch has failed the
\* click handlers and the interval callback can still run.
C12_RefreshSurvivesFailures ==
    /\ []<>(ev.kind = "tick")
    /\ JustFailed ~> (ev.kind = "tick")
    /\ []((failed /\ Idle) =>
            /\ tickInFlight < MaxInFlight => ENABLED Tick
            /\ BagCardinality(detailInFlight) < MaxInFlight =>
                  (ENABLED BtnPrevClick /\ ENABLED BtnNextClick))

\* The interval has just issued a refresh although a fetch has failed and no
\* summary response has delivered any data yet.
C12_Witness ==
    /\ ev.kind = "tick"
    /\ failed
    /\ ~hadData
    /\ initPc = "done"

\* C13: a previous or next click that changes the index issues exactly one
\* detail fetch, for the new index, with the controls already showing the
\* new index; a click that changes nothing issues no fetch and leaves the
\* controls as they were.
C13_ClickLoadsNewIndex ==
    [][(Ran("prev") \/ Ran("next")) =>
          IF currentDatasetIndex' # currentDatasetIndex
          THEN /\ detailInFlight' = detailInFlight (+) SetToBag({currentDatasetIndex'})
               /\ controls' = ControlState(currentDatasetIndex', totalDatasets')
          ELSE UNCHANGED <<detailInFlight, controls>>]_vars

\* A next click has just moved the index from 1 to 2 of 3: one fetch, for
\* index 2, is outstanding and the counter reads 3 of 3.
C13_Witness ==
    /\ ev = Event("next", 1)
    /\ currentDatasetIndex = 2
    /\ totalDatasets = 3
    /\ detailInFlight = SetToBag({2})
    /\ controls.counterEl = <<3, 3>>

\* C14: after every successful summary response the time-series chart
\* shows exactly the list of that response, whatever its length.
C14_ChartShowsLastList ==
    [][Ran("summaryOk") =>
          temporalPlot' = TemporalTraces(SummaryData(ev'.arg))]_vars

\* C15: in every reachable state the filename, the three stats and the five
\* views all come from one detail record, that of the successful detail
\* response that arrived last, or the panel is still blank: a successful
\* detail response replaces all nine parts and no other turn writes any.
C15_DetailPanelOfOneRecord ==
    /\ [](\/ detailView = BlankDetail
          \/ \E i \in 0..MaxTotal : detailView = RenderDetail(DetailData(i)))
    /\ [][IF Ran("detailOk")
          THEN detailView' = RenderDetail(DetailData(ev'.arg))
          ELSE UNCHANGED detailView]_vars

\* The record of index 0 has just replaced the record of index 1 in the
\* panel although the index is 1: the responses arrived out of order, and
\* the panel is the record of index 0 in all its parts.
C15_Witness ==
    /\ ev = Event("detailOk", 0)
    /\ currentDatasetIndex = 1
    /\ detailInFlight = EmptyBag
    /\ detailView.filenameEl = <<"dataset", 0>>
    /\ detailView.statsAvg = <<3001, "°C">>
    /\ detailView.histogram = <<[x |-> <<20, 30, 30, 40>>]>>

\* C16: the index is never negative, and a turn that changes it is a
\* previous click that subtracts one or a next click that adds one; the
\* startup sequence, ticks and summary or detail responses leave it alone.
C16_IndexWrittenByClicksOnly ==
    /\ [](currentDatasetIndex >= 0)
    /\ [][currentDatasetIndex' # currentDatasetIndex =>
             \/ Ran("prev") /\ currentDatasetIndex' = currentDatasetIndex - 1
             \/ Ran("next") /\ currentDatasetIndex' = currentDatasetIndex + 1]_vars

\* A summary response of length 1 has just arrived with the index at 2, and
\* the index is still 2.
C16_Witness ==
    /\ ev = Event("summaryOk", 1)
    /\ totalDatasets = 1
    /\ currentDatasetIndex = 2
    /\ controls.counterEl = <<3, 1>>

\* C17: total is 0 at first, a successful summary response sets it to the
\* length of its list and no other turn writes it, so that total is always
\* the length of the successful response that arrived last, whichever of
\* two overlapping refreshes was issued first.
C17_TotalOfLastArrival ==
    /\ totalDatasets = 0
    /\ [][IF Ran("summaryOk")
          THEN totalDatasets' = ev'.arg
          ELSE UNCHANGED totalDatasets]_vars

\* The startup refresh, issued first, has just been answered after a tick's
\* refresh that delivered three points, and its empty list has set total
\* to 0.
C17_Witness ==
    /\ ev = Event("summaryOk", 0)
    /\ initPc = "resumed"
    /\ temporalPlot = TemporalTraces(SummaryData(3))
    /\ totalDatasets = 0
====
